---- MODULE Spec2Model ----
(***************************************************************************)
(* Model of the WebSocket plugin backend                                   *)
(* (src/src/plugins/websocket/main.ts): the process-wide `state` object,   *)
(* the http server's listen / connection / upgrade / request handlers,     *)
(* the song-info callback, stop, onConfigChange, updateActivity and        *)
(* constructReply.                                                         *)
(*                                                                         *)
(* Strings are sequences of code points (JS string length = Len), byte     *)
(* buffers are sequences of 0..255.  An optional value (`x?: T`) is the    *)
(* empty sequence (undefined) or a one-element sequence.                   *)
(*                                                                         *)
(* Node's event loop runs every handler to completion, so each handler is  *)
(* one action.                                                             *)
(***************************************************************************)
EXTENDS Integers, Sequences, FiniteSets, TLC

\* ---------------------------------------------------------------- bounds
MaxSockets == 2        \* TCP connections the model lets the server accept
MaxTitleLen == 3       \* longest title delivered by the song-info provider
MaxArtistLen == 2      \* longest artist delivered by the song-info provider
MaxClock == 10002      \* latest Date.now() the clock of the model reaches
MaxSeed == 4           \* payloads of each length handed to constructReply: 0..MaxSeed

\* ------------------------------------------------------- option values
None == <<>>
Some(x) == <<x>>
IsSome(o) == Len(o) = 1
Get(o) == o[1]

\* ----------------------------------------------------- string constants
\* 'ㅤ' (main.ts:172): one UTF-16 unit, three UTF-8 bytes
hangulFillerUnicodeCharacter == 12644
\* '258EAFA5-E914-47DA-95CA-C5AB0DC85B11' (main.ts:90)
MagicGuid ==
  <<50, 53, 56, 69, 65, 70, 65, 53, 45, 69, 57, 49, 52, 45, 52, 55, 68, 65,
    45, 57, 53, 67, 65, 45, 67, 53, 65, 66, 48, 68, 67, 56, 53, 66, 49, 49>>
\* what `undefined + '...'` prepends: the text "undefined"
UndefinedText == <<117, 110, 100, 101, 102, 105, 110, 101, 100>>

\* -------------------------------------------------------------- inputs
Sockets == 1..MaxSockets
Rep(c, n) == [i \in 1..n |-> c]
\* titles "", "T", "TT", ... and artists "", "R", "RR", ...
Titles == {Rep(84, n) : n \in 0..MaxTitleLen}
Artists == {Rep(82, n) : n \in 0..MaxArtistLen}
\* SongInfo as delivered by the provider (other fields are opaque)
SongInfos == [title : Titles, artist : Artists, elapsedSeconds : {5}]
\* req.headers['sec-websocket-key']: absent, empty, or the nonce " d"
Keys == {None, Some(<<>>), Some(<<32, 100>>)}
Configs == [enabled : BOOLEAN]

\* ------------------------------------------------------ JSON.stringify
\* UTF-8 encoding of one code point of the basic multilingual plane
Utf8(cp) ==
  IF cp < 128 THEN <<cp>>
  ELSE IF cp < 2048 THEN <<192 + (cp \div 64), 128 + (cp % 64)>>
  ELSE <<224 + (cp \div 4096), 128 + ((cp \div 64) % 64), 128 + (cp % 64)>>

RECURSIVE Utf8Str(_)
Utf8Str(s) == IF s = <<>> THEN <<>> ELSE Utf8(Head(s)) \o Utf8Str(Tail(s))

\* decimal digits of a non-negative integer
RECURSIVE Digits(_)
Digits(n) == IF n < 10 THEN <<48 + n>> ELSE Digits(n \div 10) \o <<48 + (n % 10)>>

\* JSON.stringify of a SongInfo; none of the modelled characters needs an
\* escape
StringifySong(si) ==
  <<123, 34, 116, 105, 116, 108, 101, 34, 58, 34>> \o Utf8Str(si.title)
  \o <<34, 44, 34, 97, 114, 116, 105, 115, 116, 34, 58, 34>> \o Utf8Str(si.artist)
  \o <<34, 44, 34, 101, 108, 97, 112, 115, 101, 100, 83, 101, 99, 111, 110,
       100, 115, 34, 58>> \o Digits(si.elapsedSeconds) \o <<125>>

\* JSON.stringify({ songInfo: o }): a property whose value is undefined is
\* left out of the output
Stringify(o) ==
  IF IsSome(o)
  THEN <<123, 34, 115, 111, 110, 103, 73, 110, 102, 111, 34, 58>>
       \o StringifySong(Get(o)) \o <<125>>
  ELSE <<123, 125>>

\* ------------------------------------------------------ constructReply
\* the greatest payload constructReply supports (main.ts:200), which is the
\* greatest value writeUInt16BE accepts
MaxPayloadByteLength == 65535

\* constructReply with the short form kept up to 126 bytes
\* (jsonByteLength <= 126 ? 0 : 2)
constructReplyShortUpTo126(json) ==
  LET jsonByteLength == Len(json)
      lengthByteCount == IF jsonByteLength <= 126 THEN 0 ELSE 2
      payloadLength == IF lengthByteCount = 0 THEN jsonByteLength ELSE 126
  IN  <<129, payloadLength>>
      \o (IF lengthByteCount > 0
          THEN <<(jsonByteLength \div 256) % 256, jsonByteLength % 256>>
          ELSE <<>>)
      \o json

\* main.ts:196-217, on the UTF-8 bytes of JSON.stringify(data)
constructReply(json) ==
  LET jsonByteLength == Len(json)
      lengthByteCount == IF jsonByteLength < 126 THEN 0 ELSE 2
      payloadLength == IF lengthByteCount = 0 THEN jsonByteLength ELSE 126
  IN  <<129, payloadLength>>
      \o (IF lengthByteCount > 0
          THEN <<(jsonByteLength \div 256) % 256, jsonByteLength % 256>>
          ELSE <<>>)
      \o json

\* ---------------------------------------------------------- handshake
IsSpace(c) == c \in {9, 10, 11, 12, 13, 32}
RECURSIVE TrimStart(_)
TrimStart(s) ==
  IF s # <<>> /\ IsSpace(Head(s)) THEN TrimStart(Tail(s)) ELSE s
RECURSIVE TrimEnd(_)
TrimEnd(s) ==
  IF s # <<>> /\ IsSpace(s[Len(s)]) THEN TrimEnd(SubSeq(s, 1, Len(s) - 1)) ELSE s
Trim(s) == TrimEnd(TrimStart(s))

\* req.headers['sec-websocket-key']?.trim() + '258EAFA5-...': an absent
\* header gives undefined, which the concatenation turns into "undefined"
HandshakeKey(header) ==
  (IF IsSome(header) THEN Trim(Get(header)) ELSE UndefinedText) \o MagicGuid

\* createHash('sha1').update(key).digest('base64'), kept symbolic: the
\* digest is determined by, and stands for, the hashed text
Sha1Base64(text) == [sha1base64 |-> text]

\* ------------------------------------------------- what a write carries
NoDigest == Sha1Base64(<<>>)
\* the 101 response of the upgrade handler
Http101(responseKey) ==
  [kind |-> "http101", accept |-> responseKey, contentLength |-> 0, data |-> <<>>]
\* a frame produced by constructReply
WsFrame(bytes) ==
  [kind |-> "frame", accept |-> NoDigest, contentLength |-> 0, data |-> bytes]
\* the 200 response of the request handler
Http200(length, body) ==
  [kind |-> "http200", accept |-> NoDigest, contentLength |-> length, data |-> body]

\* --------------------------------------------------------------- state
VARIABLES
  ready,          \* state.ready
  httpServer,     \* state.httpServer: "undefined", or the Server's condition
  httpSockets,    \* state.httpSockets: id -> socket
  wsSockets,      \* state.wsSockets: id -> socket
  nextSocketId,   \* state.nextSocketId
  lastSongInfo,   \* state.lastSongInfo (optional)
  config,         \* this.config (optional)
  onceShow,       \* a 'ready-to-show' listener is waiting (win.once)
  registered,     \* the song-info callback has been registered
  cbSongInfo,     \* the callback closure's lastSongInfo (optional)
  cbStored,       \* the closure's object is the object in state.lastSongInfo
  sock,           \* every socket's stream condition and listener closures
  written,        \* socket -> the write calls of the last handler, in order
  lastOp,         \* the last handler that ran, its argument and its outcome
  now,            \* Date.now(), in ms since the process started
  lastSent,       \* the lastSent of the 'ready-to-show' closure
  tickHistory,    \* when the time-changed handler was installed or last set
                  \* elapsedSeconds, and how many times it has set it
  payload,        \* constructReply: the UTF-8 bytes of JSON.stringify(data)
  buffer          \* constructReply: the Buffer returned, empty before the call

vars ==
  <<ready, httpServer, httpSockets, wsSockets, nextSocketId, lastSongInfo,
    config, onceShow, registered, cbSongInfo, cbStored, sock, written, lastOp,
    now, lastSent, tickHistory, payload, buffer>>

\* the clock and the closure of the time-changed handler
clockVars == <<now, lastSent, tickHistory>>

\* the argument and the result of a call of constructReply looked at on its
\* own
codecVars == <<payload, buffer>>

\* ------------------------------------------------------------- helpers
Range(f) == {f[x] : x \in DOMAIN f}
\* obj[id] = v
Put(f, id, v) == [x \in DOMAIN f \cup {id} |-> IF x = id THEN v ELSE f[x]]
\* delete obj[id]
Delete(f, id) == [x \in DOMAIN f \ {id} |-> f[x]]
EmptyMap == [x \in {} |-> 0]
NoWrites == [s \in Sockets |-> <<>>]
NoSocket == [status |-> "none", upgraded |-> FALSE, httpId |-> 0, wsId |-> 0]

\* the handler that ran last and, when it called updateActivity, how that
\* call ended
Op(name, outcome) == [op |-> name, update |-> outcome]

\* ------------------------------------------------------ updateActivity
\* main.ts:160
IsNoSong(songInfo) == Len(songInfo.title) = 0 /\ Len(songInfo.artist) = 0

\* main.ts:173-177: the title after the first padding statement
PaddedTitle(title) ==
  IF Len(title) < 2
  THEN title \o Rep(hangulFillerUnicodeCharacter, 2 - Len(title))
  ELSE title

\* main.ts:180: the count handed to repeat() for the artist; the title has
\* been padded by then
ArtistRepeatCount(paddedTitle) == 2 - Len(paddedTitle)

\* main.ts:178-182: String.prototype.repeat throws RangeError on a negative
\* count
ArtistPadThrows(paddedTitle, artist) ==
  Len(artist) < 2 /\ ArtistRepeatCount(paddedTitle) < 0

PaddedArtist(paddedTitle, artist) ==
  IF Len(artist) < 2 /\ ArtistRepeatCount(paddedTitle) >= 0
  THEN artist \o Rep(hangulFillerUnicodeCharacter, ArtistRepeatCount(paddedTitle))
  ELSE artist

\* the forEach given up at the first stream that has been destroyed or has
\* closed, as if write() threw there: the entries after it get no write
BroadcastUntilFailure(frame) ==
  [s \in Sockets |->
     Rep(frame,
         Cardinality({id \in DOMAIN wsSockets :
                        /\ wsSockets[id] = s
                        /\ \A j \in DOMAIN wsSockets :
                             j <= id =>
                               sock[wsSockets[j]].status
                                 \notin {"destroyed", "closed"}}))]

\* main.ts:185-191: one write call per entry of state.wsSockets.  write()
\* on a stream that is no longer writable reports the failure afterwards
\* (callback, 'error'); it does not throw, so forEach goes on.
Broadcast(frame) ==
  [s \in Sockets |->
     Rep(frame, Cardinality({id \in DOMAIN wsSockets : wsSockets[id] = s}))]

\* main.ts:164-191: updateActivity past the test for an empty song.
\* songInfo is an object: the padding statements change it in place, after
\* it has become state.lastSongInfo.
storeAndBroadcast(songInfo) ==
  IF ~ready
  THEN [outcome |-> "stored", object |-> songInfo,
        lastSongInfo |-> Some(songInfo), writes |-> NoWrites]
  ELSE LET title == PaddedTitle(songInfo.title)
           afterTitle == [songInfo EXCEPT !.title = title]
       IN  IF ArtistPadThrows(title, songInfo.artist)
           THEN [outcome |-> "threw", object |-> afterTitle,
                 lastSongInfo |-> Some(afterTitle), writes |-> NoWrites]
           ELSE LET padded ==
                      [afterTitle EXCEPT
                         !.artist = PaddedArtist(title, songInfo.artist)]
                IN  [outcome |-> "broadcast", object |-> padded,
                     lastSongInfo |-> Some(padded),
                     writes |->
                       Broadcast(WsFrame(constructReply(Stringify(Some(padded)))))]

\* updateActivity with the assignment to state.lastSongInfo moved above the
\* test for an empty song
updateActivityStoreFirst(songInfo) ==
  IF IsNoSong(songInfo)
  THEN [outcome |-> "rejected", object |-> songInfo,
        lastSongInfo |-> Some(songInfo), writes |-> NoWrites]
  ELSE storeAndBroadcast(songInfo)

\* updateActivity with the test of state.ready moved above the assignment
\* to state.lastSongInfo
updateActivityReadyFirst(songInfo) ==
  IF IsNoSong(songInfo)
  THEN [outcome |-> "rejected", object |-> songInfo,
        lastSongInfo |-> lastSongInfo, writes |-> NoWrites]
  ELSE IF ~ready
  THEN [outcome |-> "stored", object |-> songInfo,
        lastSongInfo |-> lastSongInfo, writes |-> NoWrites]
  ELSE storeAndBroadcast(songInfo)

\* main.ts:159-192.  The result names the value of the songInfo object
\* afterwards, the new state.lastSongInfo and the write calls made.
updateActivity(songInfo) ==
  IF IsNoSong(songInfo)
  THEN [outcome |-> "rejected", object |-> songInfo,
        lastSongInfo |-> lastSongInfo, writes |-> NoWrites]
  ELSE storeAndBroadcast(songInfo)

\* ---------------------------------------------------------------- Init
\* main.ts:29-36: the state object and the closures, before start()
ServerInit ==
  /\ ready = FALSE
  /\ httpServer = "undefined"
  /\ httpSockets = EmptyMap
  /\ wsSockets = EmptyMap
  /\ nextSocketId = 0
  /\ lastSongInfo = None
  /\ config = None
  /\ onceShow = FALSE
  /\ registered = FALSE
  /\ cbSongInfo = None
  /\ cbStored = FALSE
  /\ sock = [s \in Sockets |-> NoSocket]
  /\ written = NoWrites
  /\ lastOp = Op("init", "none")
  /\ now = 0
  /\ lastSent = 0
  /\ tickHistory = [at |-> 0, count |-> 0]

Init ==
  /\ ServerInit
  /\ payload = <<>>
  /\ buffer = <<>>

\* ------------------------------------------------------------- actions
\* start() with the counter of identifiers set back to 0
StartResetsCounter(cfg) ==
  /\ httpServer \in {"undefined", "closed", "failed"}
  /\ config' = Some(cfg)
  /\ httpServer' = "binding"
  /\ onceShow' = (onceShow \/ ~registered)
  /\ nextSocketId' = 0
  /\ written' = NoWrites
  /\ lastOp' = Op("start", "none")
  /\ UNCHANGED <<ready, httpSockets, wsSockets, lastSongInfo, registered,
                 cbSongInfo, cbStored, sock>>
  /\ UNCHANGED clockVars
  /\ UNCHANGED codecVars

\* main.ts:51-69, 121: start().  The plugin host starts a plugin that is
\* not running; createServer(...).listen(23232) begins to bind and
\* win.once('ready-to-show', ...) leaves a listener behind.
Start(cfg) ==
  /\ httpServer \in {"undefined", "closed", "failed"}
  /\ config' = Some(cfg)
  /\ httpServer' = "binding"
  /\ onceShow' = (onceShow \/ ~registered)
  /\ written' = NoWrites
  /\ lastOp' = Op("start", "none")
  /\ UNCHANGED <<ready, httpSockets, wsSockets, nextSocketId, lastSongInfo,
                 registered, cbSongInfo, cbStored, sock>>
  /\ UNCHANGED clockVars
  /\ UNCHANGED codecVars

\* main.ts:66-69: the listen callback
Listening ==
  /\ httpServer = "binding"
  /\ httpServer' = "listening"
  /\ ready' = TRUE
  /\ written' = NoWrites
  /\ lastOp' = Op("listening", "none")
  /\ UNCHANGED <<httpSockets, wsSockets, nextSocketId, lastSongInfo, config,
                 onceShow, registered, cbSongInfo, cbStored, sock>>
  /\ UNCHANGED clockVars
  /\ UNCHANGED codecVars

\* main.ts:66: the port cannot be bound; the server emits 'error' and the
\* listen callback never runs
BindError ==
  /\ httpServer = "binding"
  /\ httpServer' = "failed"
  /\ written' = NoWrites
  /\ lastOp' = Op("bindError", "none")
  /\ UNCHANGED <<ready, httpSockets, wsSockets, nextSocketId, lastSongInfo,
                 config, onceShow, registered, cbSongInfo, cbStored, sock>>
  /\ UNCHANGED clockVars
  /\ UNCHANGED codecVars

\* main.ts:71-81: 'connection', fired for every accepted TCP connection
Connection(s) ==
  /\ httpServer = "listening"
  /\ sock[s].status = "none"
  /\ \A r \in Sockets : r < s => sock[r].status # "none"
  /\ httpSockets' = Put(httpSockets, nextSocketId, s)
  /\ nextSocketId' = nextSocketId + 1
  /\ sock' = [sock EXCEPT ![s] = [NoSocket EXCEPT !.status = "open",
                                                  !.httpId = nextSocketId]]
  /\ written' = NoWrites
  /\ lastOp' = Op("connection", "none")
  /\ UNCHANGED <<ready, httpServer, wsSockets, lastSongInfo, config, onceShow,
                 registered, cbSongInfo, cbStored>>
  /\ UNCHANGED clockVars
  /\ UNCHANGED codecVars

\* the reply with Content-Length taken from json.length, the number of
\* UTF-16 units, instead of Buffer.byteLength(json)
RequestReplyCharLength(o) ==
  LET json == Stringify(o)
      units == IF IsSome(o)
               THEN Len(json) - Len(Utf8Str(Get(o).title)) + Len(Get(o).title)
                    - Len(Utf8Str(Get(o).artist)) + Len(Get(o).artist)
               ELSE Len(json)
  IN  Http200(units, json)

\* main.ts:57-65: the reply of the request handler
RequestReply(o) ==
  LET json == Stringify(o) IN Http200(Len(json), json)

\* main.ts:55-65: a request without an upgrade arrives on a connection
Request(s) ==
  /\ sock[s].status = "open"
  /\ ~sock[s].upgraded
  /\ written' = [NoWrites EXCEPT ![s] = <<RequestReply(lastSongInfo)>>]
  /\ lastOp' = Op("request", "none")
  /\ UNCHANGED <<ready, httpServer, httpSockets, wsSockets, nextSocketId,
                 lastSongInfo, config, onceShow, registered, cbSongInfo,
                 cbStored, sock>>
  /\ UNCHANGED clockVars
  /\ UNCHANGED codecVars

\* the upgrade handler with the state frame written before the 101 response
UpgradeWritesFrameFirst(header, o) ==
  <<WsFrame(constructReply(Stringify(o))), Http101(Sha1Base64(HandshakeKey(header)))>>

\* main.ts:88-118: the two writes of the upgrade handler, in order
UpgradeWrites(header, o) ==
  <<Http101(Sha1Base64(HandshakeKey(header))), WsFrame(constructReply(Stringify(o)))>>

\* main.ts:83-119: 'upgrade', an upgrade request arrives on a connection
Upgrade(s, header) ==
  /\ sock[s].status = "open"
  /\ ~sock[s].upgraded
  /\ wsSockets' = Put(wsSockets, nextSocketId, s)
  /\ nextSocketId' = nextSocketId + 1
  /\ sock' = [sock EXCEPT ![s].upgraded = TRUE, ![s].wsId = nextSocketId]
  /\ written' = [NoWrites EXCEPT ![s] = UpgradeWrites(header, lastSongInfo)]
  /\ lastOp' = Op("upgrade", "none")
  /\ UNCHANGED <<ready, httpServer, httpSockets, lastSongInfo, config,
                 onceShow, registered, cbSongInfo, cbStored>>
  /\ UNCHANGED clockVars
  /\ UNCHANGED codecVars

\* main.ts:104-106: 'data' on an upgraded stream
Data(s) ==
  /\ sock[s].status = "open"
  /\ sock[s].upgraded
  /\ written' = NoWrites
  /\ lastOp' = Op("data", "none")
  /\ UNCHANGED <<ready, httpServer, httpSockets, wsSockets, nextSocketId,
                 lastSongInfo, config, onceShow, registered, cbSongInfo,
                 cbStored, sock>>
  /\ UNCHANGED clockVars
  /\ UNCHANGED codecVars

\* the 'end' listener deleting the key under which the stream is in
\* httpSockets instead of its own
EndDeletesPlainId(s) ==
  /\ sock[s].status = "open"
  /\ sock[s].upgraded
  /\ wsSockets' = Delete(wsSockets, sock[s].httpId)
  /\ sock' = [sock EXCEPT ![s].status = "ended"]
  /\ written' = NoWrites
  /\ lastOp' = Op("end", "none")
  /\ UNCHANGED <<ready, httpServer, httpSockets, nextSocketId, lastSongInfo,
                 config, onceShow, registered, cbSongInfo, cbStored>>
  /\ UNCHANGED clockVars
  /\ UNCHANGED codecVars

\* main.ts:108-111: 'end', the peer of an upgraded stream sent its FIN; the
\* stream stays half open
End(s) ==
  /\ sock[s].status = "open"
  /\ sock[s].upgraded
  /\ wsSockets' = Delete(wsSockets, sock[s].wsId)
  /\ sock' = [sock EXCEPT ![s].status = "ended"]
  /\ written' = NoWrites
  /\ lastOp' = Op("end", "none")
  /\ UNCHANGED <<ready, httpServer, httpSockets, nextSocketId, lastSongInfo,
                 config, onceShow, registered, cbSongInfo, cbStored>>
  /\ UNCHANGED clockVars
  /\ UNCHANGED codecVars

\* main.ts:77-80: 'close', emitted once for every socket after the peer
\* disconnected, the connection failed, or destroy() was called on it
Close(s) ==
  /\ sock[s].status \in {"open", "ended", "destroyed"}
  /\ httpSockets' = Delete(httpSockets, sock[s].httpId)
  /\ sock' = [sock EXCEPT ![s].status = "closed"]
  /\ written' = NoWrites
  /\ lastOp' = Op("close", "none")
  /\ UNCHANGED <<ready, httpServer, wsSockets, nextSocketId, lastSongInfo,
                 config, onceShow, registered, cbSongInfo, cbStored>>
  /\ UNCHANGED clockVars
  /\ UNCHANGED codecVars

\* main.ts:147-148: destroy() on every stream of both maps; a stream that
\* is already closed stays closed
Destroyed(s) ==
  IF s \in Range(wsSockets) \cup Range(httpSockets) /\ sock[s].status # "closed"
  THEN [sock[s] EXCEPT !.status = "destroyed"]
  ELSE sock[s]

\* main.ts:145: close() on the Server
ServerClosed(server) ==
  IF server \in {"binding", "listening"} THEN "closed" ELSE server

\* how lastOp names a stop(): "stop" when it found the server binding or
\* listening, "stopIdle" when it found none or one that is not running
StopName == IF httpServer \in {"binding", "listening"} THEN "stop" ELSE "stopIdle"

\* stop() without the test of state.httpServer: close() is called on
\* undefined when the server was never started, which throws a TypeError
StopUnguarded ==
  /\ IF httpServer # "undefined"
     THEN /\ httpServer' = ServerClosed(httpServer)
          /\ sock' = [s \in Sockets |-> Destroyed(s)]
          /\ lastOp' = Op(StopName, "none")
     ELSE /\ lastOp' = Op(StopName, "threw")
          /\ UNCHANGED <<httpServer, sock>>
  /\ written' = NoWrites
  /\ UNCHANGED <<ready, httpSockets, wsSockets, nextSocketId, lastSongInfo,
                 config, onceShow, registered, cbSongInfo, cbStored>>
  /\ UNCHANGED clockVars
  /\ UNCHANGED codecVars

\* main.ts:143-151: stop()
Stop ==
  /\ IF httpServer # "undefined"
     THEN /\ httpServer' = ServerClosed(httpServer)
          /\ sock' = [s \in Sockets |-> Destroyed(s)]
     ELSE UNCHANGED <<httpServer, sock>>
  /\ written' = NoWrites
  /\ lastOp' = Op(StopName, "none")
  /\ UNCHANGED <<ready, httpSockets, wsSockets, nextSocketId, lastSongInfo,
                 config, onceShow, registered, cbSongInfo, cbStored>>
  /\ UNCHANGED clockVars
  /\ UNCHANGED codecVars

\* main.ts:121-129: 'ready-to-show' runs the waiting listener, which
\* registers the song-info callback, reads the clock into lastSent and
\* installs the time-changed handler
ReadyToShow ==
  /\ onceShow
  /\ onceShow' = FALSE
  /\ registered' = TRUE
  /\ lastSent' = now
  /\ tickHistory' = [at |-> now, count |-> 0]
  /\ UNCHANGED now
  /\ written' = NoWrites
  /\ lastOp' = Op("readyToShow", "none")
  /\ UNCHANGED <<ready, httpServer, httpSockets, wsSockets, nextSocketId,
                 lastSongInfo, config, cbSongInfo, cbStored, sock>>
  /\ UNCHANGED codecVars

\* main.ts:123-126: the song-info callback; the provider hands over a new
\* object
SongInfoCallback(songInfo) ==
  /\ registered
  /\ IF IsSome(config)
     THEN LET u == updateActivity(songInfo)
          IN  /\ lastSongInfo' = u.lastSongInfo
              /\ cbSongInfo' = Some(u.object)
              /\ cbStored' = (u.outcome # "rejected")
              /\ written' = u.writes
              /\ lastOp' = Op("songInfo", u.outcome)
     ELSE /\ cbSongInfo' = Some(songInfo)
          /\ cbStored' = FALSE
          /\ written' = NoWrites
          /\ lastOp' = Op("songInfo", "none")
          /\ UNCHANGED <<lastSongInfo>>
  /\ UNCHANGED <<ready, httpServer, httpSockets, wsSockets, nextSocketId,
                 config, onceShow, registered, sock>>
  /\ UNCHANGED clockVars
  /\ UNCHANGED codecVars

\* main.ts:152-158: onConfigChange(newConfig); updateActivity receives the
\* object that already is state.lastSongInfo
OnConfigChange(newConfig) ==
  /\ config' = Some(newConfig)
  /\ IF IsSome(lastSongInfo)
     THEN LET u == updateActivity(Get(lastSongInfo))
          IN  /\ lastSongInfo' = u.lastSongInfo
              /\ cbSongInfo' = IF cbStored THEN Some(u.object) ELSE cbSongInfo
              /\ written' = u.writes
              /\ lastOp' = Op("configChange", u.outcome)
     ELSE /\ written' = NoWrites
          /\ lastOp' = Op("configChange", "none")
          /\ UNCHANGED <<lastSongInfo, cbSongInfo>>
  /\ UNCHANGED <<ready, httpServer, httpSockets, wsSockets, nextSocketId,
                 onceShow, registered, cbStored, sock>>
  /\ UNCHANGED clockVars
  /\ UNCHANGED codecVars

Next ==
  \/ \E cfg \in Configs : Start(cfg)
  \/ Listening
  \/ BindError
  \/ \E s \in Sockets : Connection(s)
  \/ \E s \in Sockets : Request(s)
  \/ \E s \in Sockets, header \in Keys : Upgrade(s, header)
  \/ \E s \in Sockets : Data(s)
  \/ \E s \in Sockets : End(s)
  \/ \E s \in Sockets : Close(s)
  \/ Stop
  \/ ReadyToShow
  \/ \E songInfo \in SongInfos : SongInfoCallback(songInfo)
  \/ \E newConfig \in Configs : OnConfigChange(newConfig)

Spec == Init /\ [][Next]_vars

\* ------------------------------------------------- the time-changed tick
\* the elapsed time a 'ytmd:time-changed' message carries
Ticks == {7}

\* the handler with the test written as currentTime - lastSent >= 5000
TickPassesAtThreshold(currentTime, sent) == currentTime - sent >= 5000

\* main.ts:133
TickPasses(currentTime, sent) == currentTime - sent > 5000

\* main.ts:129-140: the 'ytmd:time-changed' handler.  lastSongInfo is the
\* closure's object, which is state.lastSongInfo as well when cbStored.
Tick(t) ==
  /\ registered
  /\ IF TickPasses(now, lastSent) /\ IsSome(cbSongInfo)
     THEN LET object == [Get(cbSongInfo) EXCEPT !.elapsedSeconds = t]
              count == tickHistory.count
          IN  /\ lastSent' = now
              /\ tickHistory' =
                   [at |-> now, count |-> IF count < 2 THEN count + 1 ELSE count]
              /\ IF IsSome(config)
                 THEN LET u == updateActivity(object)
                      IN  /\ lastSongInfo' = u.lastSongInfo
                          /\ cbSongInfo' = Some(u.object)
                          /\ cbStored' = (u.outcome # "rejected")
                          /\ written' = u.writes
                          /\ lastOp' = Op("tick", u.outcome)
                 ELSE /\ lastSongInfo' =
                           IF cbStored THEN Some(object) ELSE lastSongInfo
                      /\ cbSongInfo' = Some(object)
                      /\ written' = NoWrites
                      /\ lastOp' = Op("tick", "skipped")
                      /\ UNCHANGED cbStored
     ELSE /\ lastSent' = IF TickPasses(now, lastSent) THEN now ELSE lastSent
          /\ written' = NoWrites
          /\ lastOp' = Op("tick", "none")
          /\ UNCHANGED <<lastSongInfo, cbSongInfo, cbStored, tickHistory>>
  /\ UNCHANGED <<ready, httpServer, httpSockets, wsSockets, nextSocketId,
                 config, onceShow, registered, sock, now>>
  /\ UNCHANGED codecVars

\* the clock moves on between two handlers
Advance(ms) ==
  /\ now + ms <= MaxClock
  /\ now' = now + ms
  /\ UNCHANGED <<ready, httpServer, httpSockets, wsSockets, nextSocketId,
                 lastSongInfo, config, onceShow, registered, cbSongInfo,
                 cbStored, sock, written, lastOp, lastSent, tickHistory>>
  /\ UNCHANGED codecVars

\* the infos delivered while the clock runs: an empty, a short and the
\* longest title, with an empty or a short artist
TickSongInfos ==
  {si \in SongInfos : Len(si.title) \in {0, 1, MaxTitleLen} /\ Len(si.artist) <= 1}

\* the handlers with one connection and one configuration, the clock and
\* the time-changed handler
NextTick ==
  \/ Start([enabled |-> TRUE])
  \/ Listening
  \/ BindError
  \/ Connection(1)
  \/ Request(1)
  \/ Upgrade(1, Some(<<32, 100>>))
  \/ Data(1)
  \/ End(1)
  \/ Close(1)
  \/ Stop
  \/ ReadyToShow
  \/ \E songInfo \in TickSongInfos : SongInfoCallback(songInfo)
  \/ OnConfigChange([enabled |-> TRUE])
  \/ \E ms \in {5000, 5001} : Advance(ms)
  \/ \E t \in Ticks : Tick(t)

SpecTick == Init /\ [][NextTick]_vars

\* the infos delivered while connections come and go: title and artist
\* empty or of the greatest length
ConnSongInfos ==
  {si \in SongInfos :
     Len(si.title) \in {0, MaxTitleLen} /\ Len(si.artist) \in {0, MaxArtistLen}}

\* the handlers with every connection, one configuration and one key
NextConn ==
  \/ Start([enabled |-> TRUE])
  \/ Listening
  \/ BindError
  \/ \E s \in Sockets : Connection(s)
  \/ \E s \in Sockets : Request(s)
  \/ \E s \in Sockets : Upgrade(s, Some(<<32, 100>>))
  \/ \E s \in Sockets : Data(s)
  \/ \E s \in Sockets : End(s)
  \/ \E s \in Sockets : Close(s)
  \/ Stop
  \/ ReadyToShow
  \/ \E songInfo \in ConnSongInfos : SongInfoCallback(songInfo)
  \/ OnConfigChange([enabled |-> TRUE])

SpecConn == Init /\ [][NextConn]_vars

\* --------------------------------------------- constructReply on its own
\* the byte lengths of the payloads: around the two ends of the short form
\* and of the one-byte range, and up to the greatest supported length
PayloadLengths ==
  {0, 1, 125, 126, 127, 255, 256, 257,
   MaxPayloadByteLength - 1, MaxPayloadByteLength}

\* a text of printable ASCII characters, different at neighbouring positions
Payload(length, seed) == [i \in 1..length |-> 32 + ((i + seed) % 95)]

\* the payloads handed to constructReply: texts of the lengths above, and
\* what JSON.stringify gives for the playback infos of the model
Payloads ==
  {Payload(length, seed) : length \in PayloadLengths, seed \in 0..MaxSeed}
  \cup {Stringify(o) : o \in {None} \cup {Some(si) : si \in SongInfos}}

InitCodec ==
  /\ ServerInit
  /\ payload \in Payloads
  /\ buffer = <<>>

\* main.ts:196-217: one call of constructReply
ConstructReply ==
  /\ buffer = <<>>
  /\ buffer' = constructReply(payload)
  /\ UNCHANGED <<ready, httpServer, httpSockets, wsSockets, nextSocketId,
                 lastSongInfo, config, onceShow, registered, cbSongInfo,
                 cbStored, sock, written, lastOp, payload>>
  /\ UNCHANGED clockVars

NextCodec == ConstructReply

SpecCodec == InitCodec /\ [][NextCodec]_vars

TypeOK ==
  /\ ready \in BOOLEAN
  /\ httpServer \in {"undefined", "binding", "listening", "closed", "failed"}
  /\ nextSocketId \in 0..(2 * MaxSockets)
  /\ Range(httpSockets) \subseteq Sockets
  /\ Range(wsSockets) \subseteq Sockets

\* ============================================================== claims
\* what the claims call an accepted update: updateActivity got past the
\* test for an empty song
Accepted == {"stored", "threw", "broadcast"}
\* the frame that carries the stored playback info
StateFrame(o) == WsFrame(constructReply(Stringify(o)))
\* the text {"songInfo":null}
NullJson ==
  <<123, 34, 115, 111, 110, 103, 73, 110, 102, 111, 34, 58, 110, 117, 108,
    108, 125>>
\* the JSON the claims describe: the stored info, null when there is none
ClaimedJson(o) == IF IsSome(o) THEN Stringify(o) ELSE NullJson
\* the text {}
EmptyObjectJson == <<123, 125>>
\* the JSON the code produces: the stored info, no songInfo field when
\* there is none
AmendedJson(o) == IF IsSome(o) THEN Stringify(o) ELSE EmptyObjectJson
\* a string right-padded with the filler glyph to length 2
PadTo2(str) ==
  IF Len(str) < 2 THEN str \o Rep(hangulFillerUnicodeCharacter, 2 - Len(str)) ELSE str
EmptyStrings(songInfo) == songInfo.title = <<>> /\ songInfo.artist = <<>>

\* C1: whenever ready is true and update is called with an info whose title
\* and artist are not both empty, exactly one frame is written to every
\* connection of the upgraded registry, the frames are identical and carry
\* the current playback info, and nothing is written to any other
\* connection.  (updateActivity changes neither ready nor the registries, so
\* the state after the call decides it.)
C1_BroadcastReachesEveryUpgraded ==
  (ready /\ lastOp.update \in Accepted) =>
    \A s \in Sockets :
      written[s] = IF s \in Range(wsSockets)
                   THEN <<StateFrame(lastSongInfo)>> ELSE <<>>

C3_StopEmptiesRegistries ==
  (lastOp.op = "stop" /\ httpServer = "closed") =>
    /\ \A s \in Sockets : sock[s].status \in {"none", "destroyed", "closed"}
    /\ httpSockets = EmptyMap
    /\ wsSockets = EmptyMap

\* C4: after stop() ready is false, and an update issued after stop()
\* stores the info but writes to no connection.
C4_StoppedIsNotReady ==
  httpServer = "closed" =>
    /\ ~ready
    /\ lastOp.update \in Accepted =>
         (lastOp.update = "stored" /\ written = NoWrites)

\* C5: in every reachable state ready is true only if a listening socket is
\* currently bound.
C5_ReadyOnlyWhileListening == ready => httpServer = "listening"

\* C6: update(info) with title and artist both empty writes to no
\* connection and leaves the stored playback info, both registries and
\* ready unchanged, whatever the value of ready.
C6_EmptyUpdateIsNoOp ==
  [][\A songInfo \in SongInfos :
       (EmptyStrings(songInfo) /\ SongInfoCallback(songInfo)) =>
         /\ written' = NoWrites
         /\ UNCHANGED <<lastSongInfo, httpSockets, wsSockets, ready>>]_vars

\* an empty update has just been turned away while the server was ready,
\* held a playback info and had an upgraded connection registered
C6_Witness ==
  /\ lastOp.update = "rejected"
  /\ ready
  /\ IsSome(lastSongInfo)
  /\ wsSockets # EmptyMap

\* C7: when ready is false, update(info) with a non-empty title or artist
\* stores info and writes to no connection; the stored value stays until
\* the next update, and it is what a plain read returns and what an
\* upgrading client receives in its first frame.
C7_StoredWhileNotReady ==
  [][/\ \A songInfo \in SongInfos :
          (~ready /\ ~EmptyStrings(songInfo) /\ SongInfoCallback(songInfo)) =>
            (lastSongInfo' = Some(songInfo) /\ written' = NoWrites)
     /\ lastOp'.update = "none" => lastSongInfo' = lastSongInfo
     /\ \A s \in Sockets :
          /\ (Request(s) /\ IsSome(lastSongInfo)) =>
               written'[s][1].data = Stringify(lastSongInfo)
          /\ \A header \in Keys :
               (Upgrade(s, header) /\ IsSome(lastSongInfo)) =>
                 written'[s][2] = StateFrame(lastSongInfo)]_vars

\* an update has just stored an info while the server was not ready
C7_Witness ==
  /\ lastOp.update = "stored"
  /\ ~ready
  /\ IsSome(lastSongInfo)

\* C8: for every accepted update while ready, the broadcast playback info
\* has the original title right-padded with the filler glyph to length 2
\* and the original artist right-padded with the filler glyph to length 2.
C8_BothFieldsPadded ==
  [][\A songInfo \in SongInfos :
       (ready /\ ~EmptyStrings(songInfo) /\ SongInfoCallback(songInfo)) =>
         /\ Get(lastSongInfo').title = PadTo2(songInfo.title)
         /\ Get(lastSongInfo').artist = PadTo2(songInfo.artist)
         /\ \A s \in Range(wsSockets) :
              written'[s] = <<StateFrame(Some(
                [songInfo EXCEPT !.title = PadTo2(songInfo.title),
                                 !.artist = PadTo2(songInfo.artist)]))>>]_vars

\* C9: an upgrade request whose key header is absent or empty gets no
\* handshake response and no state frame, its connection is closed, and it
\* never appears in the upgraded registry.
C9_MissingKeyRejected ==
  [][\A s \in Sockets : \A header \in {None, Some(<<>>)} :
       Upgrade(s, header) =>
         /\ written'[s] = <<>>
         /\ s \notin Range(wsSockets')
         /\ sock'[s].status \in {"destroyed", "closed"}]_vars

\* C10 as claimed: a plain request receives status 200 with a body whose
\* songInfo field is the stored playback info, or null if there is none;
\* serving it changes no server state and writes to no other connection.
C10_PlainReadReturnsStoredOrNull ==
  [][\A s \in Sockets :
       Request(s) =>
         /\ written' = [NoWrites EXCEPT ![s] =
              <<Http200(Len(ClaimedJson(lastSongInfo)), ClaimedJson(lastSongInfo))>>]
         /\ UNCHANGED <<ready, httpServer, httpSockets, wsSockets, nextSocketId,
                        lastSongInfo, config, sock>>]_vars

\* C10 as amended: the same, with the body {} (no songInfo field) when no
\* playback info is stored.
C10_PlainReadReturnsStored ==
  [][\A s \in Sockets :
       Request(s) =>
         /\ written' = [NoWrites EXCEPT ![s] =
              <<Http200(Len(AmendedJson(lastSongInfo)), AmendedJson(lastSongInfo))>>]
         /\ UNCHANGED <<ready, httpServer, httpSockets, wsSockets, nextSocketId,
                        lastSongInfo, config, sock>>]_vars

\* a plain request has just been answered with a padded playback info while
\* an upgraded connection was registered
C10_Witness ==
  /\ lastOp.op = "request"
  /\ IsSome(lastSongInfo)
  /\ hangulFillerUnicodeCharacter \in Range(Get(lastSongInfo).title)
  /\ wsSockets # EmptyMap
  /\ \E s \in Sockets : Len(written[s]) = 1 /\ written[s][1].kind = "http200"

\* a tick set elapsedSeconds and re-ran updateActivity in this step
TickAccepted == (\E t \in Ticks : Tick(t)) /\ lastOp'.update # "none"

\* C11 as claimed: any two accepted ticks are more than 5000 ms apart, the
\* first accepted one is more than 5000 ms after the handler was installed,
\* and an accepted tick changes only the elapsedSeconds field of the last
\* info delivered by the song-info callback.
C11_TicksRateLimitedOnlyElapsed ==
  [][TickAccepted =>
       /\ now' - tickHistory.at > 5000
       /\ IsSome(cbSongInfo)
       /\ \E t \in Ticks :
            cbSongInfo' = Some([Get(cbSongInfo) EXCEPT !.elapsedSeconds = t])]_vars

\* C11 as amended: the same, except that the updateActivity the tick
\* re-runs may right-pad the title or the artist with the filler glyph.
C11_TicksRateLimited ==
  [][TickAccepted =>
       /\ now' - tickHistory.at > 5000
       /\ IsSome(cbSongInfo)
       /\ \E t \in Ticks :
            /\ Get(cbSongInfo').elapsedSeconds = t
            /\ Get(cbSongInfo').title
                 \in {Get(cbSongInfo).title, PadTo2(Get(cbSongInfo).title)}
            /\ Get(cbSongInfo').artist
                 \in {Get(cbSongInfo).artist, PadTo2(Get(cbSongInfo).artist)}
       /\ cbStored' => lastSongInfo' = cbSongInfo']_vars

\* a second tick has just been accepted and has been broadcast
C11_Witness ==
  /\ lastOp = Op("tick", "broadcast")
  /\ tickHistory.count = 2
  /\ tickHistory.at = now
  /\ Get(lastSongInfo).elapsedSeconds \in Ticks

\* a stream a write call fails on: it has been destroyed or has closed
FailedStream(s) == sock[s].status \in {"destroyed", "closed"}
\* an update, issued by the song-info callback or by onConfigChange, reached
\* the broadcast in this step
BroadcastStep ==
  /\ \/ \E songInfo \in SongInfos : SongInfoCallback(songInfo)
     \/ \E newConfig \in Configs : OnConfigChange(newConfig)
  /\ lastOp'.update = "broadcast"

\* C12: during a broadcast, a write failure on one upgraded connection does
\* not keep the frame from being written to every other connection of the
\* upgraded registry, removes no registry entry, disconnects nothing and
\* leaves the stored playback info the one the frame carries.
C12_WriteFailureIsolated ==
  [][(BroadcastStep /\ \E id \in DOMAIN wsSockets : FailedStream(wsSockets[id])) =>
       /\ IsSome(lastSongInfo')
       /\ \A id \in DOMAIN wsSockets :
            ~FailedStream(wsSockets[id]) =>
              written'[wsSockets[id]] = <<StateFrame(lastSongInfo')>>
       /\ UNCHANGED <<wsSockets, httpSockets, sock>>]_vars

\* a broadcast has just written to an open connection that was upgraded
\* after a connection whose stream has failed and is still registered
C12_Witness ==
  /\ lastOp.update = "broadcast"
  /\ \E failed, open \in DOMAIN wsSockets :
       /\ failed < open
       /\ FailedStream(wsSockets[failed])
       /\ sock[wsSockets[open]].status = "open"
       /\ written[wsSockets[open]] = <<StateFrame(lastSongInfo)>>

\* C13: stop() when the server was never started or has already been
\* stopped raises no error and leaves ready, both registries and the stored
\* playback info as they were; it changes nothing else either, so stop()
\* twice yields the state of stop() once.
C13_StopIsIdempotent ==
  [][(Stop /\ httpServer \in {"undefined", "closed"}) =>
       /\ lastOp'.update = "none"
       /\ written' = NoWrites
       /\ UNCHANGED <<ready, httpSockets, wsSockets, lastSongInfo>>
       /\ UNCHANGED <<httpServer, sock, nextSocketId, config, onceShow,
                      registered, cbSongInfo, cbStored>>]_vars

\* stop() has just run on a server that had been stopped before, with ready
\* still true, a playback info stored and a destroyed stream still in the
\* upgraded registry
C13_Witness ==
  /\ lastOp.op = "stopIdle"
  /\ httpServer = "closed"
  /\ ready
  /\ IsSome(lastSongInfo)
  /\ \E id \in DOMAIN wsSockets : sock[wsSockets[id]].status = "destroyed"

\* C14: start(config) with config.enabled false leaves the server stopped:
\* no listening socket is bound (listen is not even called), ready does not
\* become true and no connection is accepted or registered.
C14_DisabledStartStaysStopped ==
  [][Start([enabled |-> FALSE]) =>
       /\ httpServer' \notin {"binding", "listening"}
       /\ UNCHANGED <<ready, httpSockets, wsSockets>>]_vars

\* C15: onConfigChange(newConfig) always replaces the held configuration;
\* with a playback info stored it re-runs the update on it, so that, when
\* ready, every upgraded connection receives exactly one frame with the
\* current info, which the call leaves as it was (here: up to the filler
\* glyphs the update appends); with none stored it writes to no connection
\* and leaves the playback state unchanged.
C15_ConfigChangeRebroadcasts ==
  [][\A newConfig \in Configs :
       OnConfigChange(newConfig) =>
         /\ config' = Some(newConfig)
         /\ IF IsSome(lastSongInfo)
            THEN /\ IsSome(lastSongInfo')
                 /\ Get(lastSongInfo').elapsedSeconds = Get(lastSongInfo).elapsedSeconds
                 /\ Get(lastSongInfo').title
                      \in {Get(lastSongInfo).title, PadTo2(Get(lastSongInfo).title)}
                 /\ Get(lastSongInfo').artist
                      \in {Get(lastSongInfo).artist, PadTo2(Get(lastSongInfo).artist)}
                 /\ ready =>
                      \A s \in Sockets :
                        written'[s] = IF s \in Range(wsSockets)
                                      THEN <<StateFrame(lastSongInfo')>> ELSE <<>>
            ELSE /\ written' = NoWrites
                 /\ UNCHANGED <<lastSongInfo, cbSongInfo, ready>>]_vars

\* C16: for every JSON payload of byte length L <= 65535 the frame has byte
\* 0 equal to 0x81; if L < 126, byte 1 is L, the payload starts at offset 2
\* and the frame has L + 2 bytes; if L >= 126, byte 1 is 126, bytes 2 and 3
\* hold L as a 16-bit big-endian integer, the payload starts at offset 4 and
\* the frame has L + 4 bytes; the bytes from the payload offset to the end
\* are exactly the payload.  (Offsets count from 0, sequences from 1.)
C16_FrameLayout ==
  (buffer # <<>> /\ Len(payload) <= MaxPayloadByteLength) =>
    LET L == Len(payload)
    IN  /\ buffer[1] = 129
        /\ IF L < 126
           THEN /\ buffer[2] = L
                /\ Len(buffer) = L + 2
                /\ SubSeq(buffer, 3, Len(buffer)) = payload
           ELSE /\ buffer[2] = 126
                /\ buffer[3] \in 0..255
                /\ buffer[4] \in 0..255
                /\ buffer[3] * 256 + buffer[4] = L
                /\ Len(buffer) = L + 4
                /\ SubSeq(buffer, 5, Len(buffer)) = payload

\* constructReply has returned the frame of a payload of the greatest
\* supported length
C16_Witness ==
  /\ buffer # <<>>
  /\ Len(payload) = MaxPayloadByteLength
  /\ Len(buffer) = MaxPayloadByteLength + 4
  /\ buffer[3] = 255
  /\ buffer[4] = 255

\* C17: in every reachable state every entry of the plain registry and of
\* the upgraded registry refers to a stream that is still open (neither
\* destroyed nor closed), so no broadcast writes to a stream that is no
\* longer open.
C17_RegistriesHoldOpenStreams ==
  /\ \A s \in Range(httpSockets) \cup Range(wsSockets) : ~FailedStream(s)
  /\ lastOp.update = "broadcast" =>
       \A s \in Sockets : written[s] # <<>> => ~FailedStream(s)

\* the identifiers assigned so far: one for every accepted connection and
\* one more for every upgrade
PlainIds == {sock[s].httpId : s \in {r \in Sockets : sock[r].status # "none"}}
UpgradedIds == {sock[s].wsId : s \in {r \in Sockets : sock[r].upgraded}}
AssignedIds == PlainIds \cup UpgradedIds
\* the same after the step
AssignedIdsAfter ==
  {sock'[s].httpId : s \in {r \in Sockets : sock'[r].status # "none"}}
  \cup {sock'[s].wsId : s \in {r \in Sockets : sock'[r].upgraded}}

\* C18: identifiers come from one shared counter: over accepts, upgrades,
\* closes, stop and restart each newly assigned identifier is greater than
\* every identifier assigned before it, so none is reused and none is a key
\* of both registries.
C18_IdentifiersIncrease ==
  [][/\ \A new \in AssignedIdsAfter \ AssignedIds :
          \A old \in AssignedIds : new > old
     /\ Cardinality(AssignedIdsAfter)
          = Cardinality({s \in Sockets : sock'[s].status # "none"})
            + Cardinality({s \in Sockets : sock'[s].upgraded})
     /\ DOMAIN httpSockets' \subseteq
          {sock'[s].httpId : s \in {r \in Sockets : sock'[r].status # "none"}}
     /\ DOMAIN wsSockets' \subseteq
          {sock'[s].wsId : s \in {r \in Sockets : sock'[r].upgraded}}
     /\ DOMAIN httpSockets' \cap DOMAIN wsSockets' = {}]_vars

\* after a stop and a restart a connection has just been upgraded and got
\* an identifier, while a stream destroyed by the stop still holds its own
C18_Witness ==
  /\ lastOp.op = "upgrade"
  /\ \E old, new \in Sockets :
       /\ sock[old].status = "destroyed"
       /\ sock[old].upgraded
       /\ sock[new].status = "open"
       /\ sock[new].upgraded
       /\ sock[new].wsId = nextSocketId - 1
       /\ sock[new].wsId > sock[old].wsId
       /\ sock[old].wsId \in DOMAIN wsSockets

\* the close signal of a plain connection has been handled
PlainCloseHandled(s) == sock[s].status = "closed" /\ ~sock[s].upgraded
\* the end-of-stream signal of an upgraded connection has been handled
EndHandled(s) == sock[s].upgraded /\ sock[s].status \in {"ended", "closed"}
                 /\ sock[s].wsId \notin DOMAIN wsSockets
\* a registry without the entry of one identifier, the others as they were
Without(registry, id) == [x \in DOMAIN registry \ {id} |-> registry[x]]

\* C19: once the close signal of a plain connection or the end-of-stream
\* signal of an upgraded connection has been handled, its identifier is
\* absent from the registry and no later broadcast writes to it; handling
\* the signal removes no other entry, and handling it a second time changes
\* nothing.
C19_UnregisterOnce ==
  [][\A s \in Sockets :
       /\ (Close(s) /\ ~sock[s].upgraded) =>
            /\ sock[s].httpId \in DOMAIN httpSockets
            /\ httpSockets' = Without(httpSockets, sock[s].httpId)
            /\ wsSockets' = wsSockets
       /\ End(s) =>
            /\ sock[s].wsId \in DOMAIN wsSockets
            /\ wsSockets' = Without(wsSockets, sock[s].wsId)
            /\ httpSockets' = httpSockets
       /\ PlainCloseHandled(s) =>
            /\ written'[s] = <<>>
            /\ sock[s].httpId \notin DOMAIN httpSockets'
            /\ Delete(httpSockets', sock[s].httpId) = httpSockets'
       /\ EndHandled(s) =>
            /\ written'[s] = <<>>
            /\ sock[s].wsId \notin DOMAIN wsSockets'
            /\ Delete(wsSockets', sock[s].wsId) = wsSockets']_vars

\* a broadcast has just written to the one connection still registered and
\* not to a connection whose end-of-stream and close signals were handled
\* before
C19_Witness ==
  /\ lastOp.update = "broadcast"
  /\ \E gone, here \in Sockets :
       /\ EndHandled(gone)
       /\ sock[gone].status = "closed"
       /\ sock[gone].httpId \notin DOMAIN httpSockets
       /\ written[gone] = <<>>
       /\ sock[here].wsId \in DOMAIN wsSockets
       /\ sock[here].upgraded
       /\ written[here] = <<StateFrame(lastSongInfo)>>

\* C20: for every title and artist, not both empty, the number of filler
\* glyphs an update while ready appends to each field is an integer from 0
\* to 2, so the update does not abort between storing the info and
\* broadcasting it: every update that stores the info reaches the broadcast.
C20_FillerCountInRange ==
  [][\A songInfo \in SongInfos :
       (ready /\ ~EmptyStrings(songInfo) /\ SongInfoCallback(songInfo)) =>
         /\ Len(songInfo.title) < 2 => 2 - Len(songInfo.title) \in 0..2
         /\ Len(songInfo.artist) < 2 =>
              ArtistRepeatCount(PaddedTitle(songInfo.title)) \in 0..2
         /\ lastSongInfo' # lastSongInfo => lastOp'.update = "broadcast"
         /\ lastOp'.update # "threw"]_vars

====
